---- MODULE Spec2Model ----
(***************************************************************************)
(* A model of the task repositories of todo.py: the volatile backend       *)
(* (InMemoryTaskRepository) and the persistent backend                     *)
(* (SQLiteTaskRepository) on one sqlite3 connection.                       *)
(*                                                                         *)
(* A title is a sequence of characters, a Task (and a row of the tasks     *)
(* table) a record [id, title, done, position].  The persistent store is   *)
(* two copies of the table: db, what the connection reads and writes       *)
(* (uncommitted changes included), and disk, what commit() last made       *)
(* durable and what any other connection reads.                            *)
(***************************************************************************)
EXTENDS Integers, Sequences, FiniteSets, TLC

\* Bounds of the model.
MaxAdds == 3
MaxTasks == 3
MaxFaults == 1

\* The characters Python's str.strip() removes.
Whitespace == {" "}

\* The titles the calls are given: empty, blank, padded and plain ones.
Titles ==
    { <<>>, <<" ", " ">>, <<" ", "a", " ">>, <<"a">> }

\* The ids the calls are given: every id a store can hand out, and one more.
TaskId == 0 .. MaxAdds + 1

VARIABLES
    backend,    \* "mem" or "sql": the repository the test fixture built
    _tasks,     \* InMemoryTaskRepository._tasks
    _next_id,   \* InMemoryTaskRepository._next_id
    db,         \* the tasks table and its AUTOINCREMENT counter, as the connection sees them
    disk,       \* the same, as last committed
    pc,         \* where a statement-by-statement SQLite call stands ("idle": none runs)
    call,       \* that call: its name, its argument and the UPDATEs it has still to issue
    last,       \* the last call that returned or raised, with its outcome
    assigned,   \* the ids add has returned so far
    seen,       \* what a concurrent reader's list_tasks() last returned, during the call under way
    faults      \* how many statements the storage has failed

vars == <<backend, _tasks, _next_id, db, disk, pc, call, last, assigned, seen, faults>>

----------------------------------------------------------------------------
\* Values

Task(id, title, done, position) ==
    [id |-> id, title |-> title, done |-> done, position |-> position]

NoTask == Task(-1, <<>>, FALSE, -1)

Call(op, task_id, ordered_ids, temp, final) ==
    [op |-> op, task_id |-> task_id, ordered_ids |-> ordered_ids,
     temp_updates |-> temp, final_updates |-> final]

NoCall == Call("none", -1, <<>>, <<>>, <<>>)

\* A call's record: op(title | task_id | ordered_ids) and what it gave:
\* outcome "ok" (a value), "none" (None), or the error raised; the value is
\* a task, a list of tasks, or the pair completion_stats gives.
Returned(op, title, task_id, ordered_ids, outcome, task, tasks) ==
    [op |-> op, title |-> title, task_id |-> task_id, ordered_ids |-> ordered_ids,
     outcome |-> outcome, task |-> task, tasks |-> tasks, stats |-> <<>>]

NoReturn == Returned("none", <<>>, -1, <<>>, "none", NoTask, <<>>)

Max(S, default) == IF S = {} THEN default ELSE CHOOSE x \in S : \A y \in S : y <= x

Range(s) == { s[i] : i \in DOMAIN s }

RECURSIVE lstrip(_)
lstrip(s) ==
    IF s # <<>> /\ Head(s) \in Whitespace THEN lstrip(Tail(s)) ELSE s

RECURSIVE rstrip(_)
rstrip(s) ==
    IF s # <<>> /\ s[Len(s)] \in Whitespace
    THEN rstrip(SubSeq(s, 1, Len(s) - 1))
    ELSE s

\* Mutant: the title is kept as given.
title_as_given(title) == title

_normalise_title(title) == rstrip(lstrip(title))

\* replace(task, position=index) / replace(task, done=...)
replace_position(task, index) == [task EXCEPT !.position = index]

replace_done(task, done) == [task EXCEPT !.done = done]

----------------------------------------------------------------------------
\* InMemoryTaskRepository; self is [_tasks, _next_id]

Self == [_tasks |-> _tasks, _next_id |-> _next_id]

Result(store, outcome, task, tasks) ==
    [store |-> store, outcome |-> outcome, task |-> task, tasks |-> tasks]

InMemory_list_tasks(self) == self._tasks

\* Mutant: the new task's position is its id.
InMemory_add_at_id(self, title) ==
    LET normalised == _normalise_title(title)
        task == Task(self._next_id, normalised, FALSE, self._next_id)
    IN  IF normalised = <<>>
        THEN Result(self, "none", NoTask, <<>>)
        ELSE Result([_tasks |-> Append(self._tasks, task),
                     _next_id |-> self._next_id + 1],
                    "ok", task, <<>>)

InMemory_add(self, title) ==
    LET normalised == _normalise_title(title)
        task == Task(self._next_id, normalised, FALSE, Len(self._tasks))
    IN  IF normalised = <<>>
        THEN Result(self, "none", NoTask, <<>>)
        ELSE Result([_tasks |-> Append(self._tasks, task),
                     _next_id |-> self._next_id + 1],
                    "ok", task, <<>>)

\* Mutant: toggle of an id that is not there returns None, as remove does.
InMemory_toggle_lenient(self, task_id) ==
    LET hits == { i \in DOMAIN self._tasks : self._tasks[i].id = task_id } IN
    IF hits = {}
    THEN Result(self, "none", NoTask, <<>>)
    ELSE LET index == CHOOSE i \in hits : \A j \in hits : i <= j
             updated == replace_done(self._tasks[index], ~self._tasks[index].done)
         IN  Result([self EXCEPT !._tasks[index] = updated], "ok", updated, <<>>)

InMemory_toggle(self, task_id) ==
    LET hits == { i \in DOMAIN self._tasks : self._tasks[i].id = task_id } IN
    IF hits = {}
    THEN Result(self, "NotFound", NoTask, <<>>)
    ELSE LET index == CHOOSE i \in hits : \A j \in hits : i <= j
             updated == replace_done(self._tasks[index], ~self._tasks[index].done)
         IN  Result([self EXCEPT !._tasks[index] = updated], "ok", updated, <<>>)

\* Mutant: the positions are left as they were.
_reindex_positions_skipped(tasks) == tasks

_reindex_positions(tasks) ==
    [index \in DOMAIN tasks |-> replace_position(tasks[index], index - 1)]

\* Mutant: remove raises for an id that is not there, as toggle does.
InMemory_remove_strict(self, task_id) ==
    IF \A i \in DOMAIN self._tasks : self._tasks[i].id # task_id
    THEN Result(self, "NotFound", NoTask, <<>>)
    ELSE Result([self EXCEPT !._tasks = _reindex_positions(
                    SelectSeq(self._tasks, LAMBDA task : task.id # task_id))],
                "none", NoTask, <<>>)

InMemory_remove(self, task_id) ==
    LET kept == SelectSeq(self._tasks, LAMBDA task : task.id # task_id) IN
    Result([self EXCEPT !._tasks = _reindex_positions(kept)], "none", NoTask, <<>>)

InMemory_completion_stats(self) ==
    <<Cardinality({ i \in DOMAIN self._tasks : self._tasks[i].done }), Len(self._tasks)>>

\* Mutant: reorder builds the tasks anew from id and title.
InMemory_reorder_rebuilt(self, ordered_ids) ==
    LET ids == { self._tasks[i].id : i \in DOMAIN self._tasks }
        id_to_task == [id \in ids |->
            self._tasks[CHOOSE i \in DOMAIN self._tasks : self._tasks[i].id = id]]
        reordered == [index \in DOMAIN ordered_ids |->
            Task(ordered_ids[index], id_to_task[ordered_ids[index]].title, FALSE, index - 1)]
    IN  IF Len(ordered_ids) # Len(self._tasks)
        THEN Result(self, "InvalidArgument", NoTask, <<>>)
        ELSE IF Range(ordered_ids) # ids
        THEN Result(self, "InvalidArgument", NoTask, <<>>)
        ELSE Result([self EXCEPT !._tasks = reordered], "ok", NoTask, reordered)

InMemory_reorder(self, ordered_ids) ==
    LET ids == { self._tasks[i].id : i \in DOMAIN self._tasks }
        id_to_task == [id \in ids |->
            self._tasks[CHOOSE i \in DOMAIN self._tasks :
                /\ self._tasks[i].id = id
                /\ \A j \in DOMAIN self._tasks : self._tasks[j].id = id => j <= i]]
        reordered == [index \in DOMAIN ordered_ids |->
            replace_position(id_to_task[ordered_ids[index]], index - 1)]
    IN  IF Len(ordered_ids) # Len(self._tasks)
        THEN Result(self, "InvalidArgument", NoTask, <<>>)
        ELSE IF Range(ordered_ids) # ids
        THEN Result(self, "InvalidArgument", NoTask, <<>>)
        ELSE Result([self EXCEPT !._tasks = reordered], "ok", NoTask, reordered)

----------------------------------------------------------------------------
\* The SQL statements of SQLiteTaskRepository, on a table
\* [rows: the rows of tasks, seq: sqlite_sequence's value for tasks,
\*  columns: the names of its columns].

\* a database that has no tasks table yet
NoTable == [rows |-> {}, seq |-> 0, columns |-> {}]

\* the table CREATE TABLE makes
EmptyTable == [rows |-> {}, seq |-> 0, columns |-> {"id", "title", "done", "position"}]

Executed(table, ok) == [db |-> table, ok |-> ok]

\* ORDER BY position, id
RowBefore(r, o) ==
    r.position < o.position \/ (r.position = o.position /\ r.id <= o.id)

RECURSIVE order_by_position_id(_)
order_by_position_id(rows) ==
    IF rows = {} THEN <<>>
    ELSE LET first == CHOOSE r \in rows : \A o \in rows : RowBefore(r, o)
         IN  <<first>> \o order_by_position_id(rows \ {first})

\* SELECT id, title, done, position FROM tasks ORDER BY position, id
select_tasks(table) == order_by_position_id(table.rows)

\* SELECT COALESCE(MAX(position), -1) + 1 AS next_position FROM tasks
select_next_position(table) == Max({ r.position : r \in table.rows }, -1) + 1

\* Mutant: id INTEGER PRIMARY KEY without AUTOINCREMENT: one more than the
\* largest rowid in the table.
max_rowid_plus_one(table) == Max({ r.id : r \in table.rows }, 0) + 1

\* id INTEGER PRIMARY KEY AUTOINCREMENT: one more than the largest rowid the
\* table has ever held.
autoincrement(table) == Max({ r.id : r \in table.rows } \cup {table.seq}, 0) + 1

\* position INTEGER NOT NULL UNIQUE: no other row may hold the position.
position_taken(table, position, task_id) ==
    \E o \in table.rows : o.id # task_id /\ o.position = position

\* INSERT INTO tasks (title, done, position) VALUES (?, 0, ?)
insert_task(table, title, position) ==
    LET rowid == autoincrement(table) IN
    IF position_taken(table, position, rowid)
    THEN [db |-> table, ok |-> FALSE, lastrowid |-> 0]
    ELSE [db |-> [table EXCEPT !.rows = @ \cup {Task(rowid, title, FALSE, position)},
                                !.seq = rowid],
          ok |-> TRUE, lastrowid |-> rowid]

\* DELETE FROM tasks WHERE id = ?
delete_task(table, task_id) ==
    [table EXCEPT !.rows = { r \in table.rows : r.id # task_id }]

\* UPDATE tasks SET done = ? WHERE id = ?
update_done(table, new_done, task_id) ==
    [table EXCEPT !.rows =
        { IF r.id = task_id THEN replace_done(r, new_done) ELSE r : r \in table.rows }]

\* UPDATE tasks SET position = ? WHERE id = ?, with update = <<position, id>>;
\* a position another row holds is refused (IntegrityError) and changes nothing.
update_position(table, update) ==
    IF  /\ \E r \in table.rows : r.id = update[2]
        /\ position_taken(table, update[1], update[2])
    THEN Executed(table, FALSE)
    ELSE Executed(
            [table EXCEPT !.rows =
                { IF r.id = update[2] THEN replace_position(r, update[1]) ELSE r
                  : r \in table.rows }],
            TRUE)

\* connection.executemany("UPDATE tasks SET position = ? WHERE id = ?", updates):
\* one UPDATE per pair, in order; the first refused one raises, and the ones
\* before it stay in the open transaction.
RECURSIVE executemany(_, _)
executemany(table, updates) ==
    IF updates = <<>> THEN Executed(table, TRUE)
    ELSE LET one == update_position(table, Head(updates)) IN
         IF one.ok THEN executemany(one.db, Tail(updates)) ELSE one

\* Mutant: the first phase writes the final positions at once.
temp_updates_unshifted(rows, ids) ==
    [index \in DOMAIN ids |-> <<index - 1, ids[index]>>]

\* temp_updates and final_updates of reorder and _normalise_positions
temp_updates(rows, ids) ==
    LET max_position == Max({ r.position : r \in Range(rows) }, -1)
        offset_base == max_position + 1
    IN  [index \in DOMAIN ids |-> <<offset_base + (index - 1), ids[index]>>]

\* Mutant: the final positions count from 1.
final_updates_from_one(ids) == [index \in DOMAIN ids |-> <<index, ids[index]>>]

final_updates(ids) == [index \in DOMAIN ids |-> <<index - 1, ids[index]>>]

----------------------------------------------------------------------------
\* SQLiteTaskRepository; conn is [db, disk]: the connection's view of the
\* table and the committed one.  commit() copies db to disk.

Conn == [db |-> db, disk |-> disk]

commit(table) == [db |-> table, disk |-> table]

SQLite_list_tasks(conn) == select_tasks(conn.db)

SQLite_add(conn, title) ==
    LET normalised == _normalise_title(title)
        next_position == select_next_position(conn.db)
        inserted == insert_task(conn.db, normalised, next_position)
    IN  IF normalised = <<>>
        THEN Result(conn, "none", NoTask, <<>>)
        ELSE IF ~inserted.ok
        THEN Result(conn, "IntegrityError", NoTask, <<>>)
        ELSE Result(commit(inserted.db), "ok",
                    Task(inserted.lastrowid, normalised, FALSE, next_position), <<>>)

\* Mutant: toggle returns the row as it was read.
SQLite_toggle_stale(conn, task_id) ==
    LET found == { r \in conn.db.rows : r.id = task_id } IN
    IF found = {}
    THEN Result(conn, "NotFound", NoTask, <<>>)
    ELSE LET row == CHOOSE r \in found : TRUE IN
         Result(commit(update_done(conn.db, ~row.done, task_id)), "ok", row, <<>>)

SQLite_toggle(conn, task_id) ==
    LET found == { r \in conn.db.rows : r.id = task_id } IN
    IF found = {}
    THEN Result(conn, "NotFound", NoTask, <<>>)
    ELSE LET row == CHOOSE r \in found : TRUE
             new_done == ~row.done
         IN  Result(commit(update_done(conn.db, new_done, task_id)), "ok",
                    Task(row.id, row.title, new_done, row.position), <<>>)

\* The two executemany calls and the commit that end reorder and
\* _normalise_positions: rows as selected, ids in the target order.
renumber(conn, rows, ids) ==
    LET temp == executemany(conn.db, temp_updates(rows, ids))
        final == executemany(temp.db, final_updates(ids))
    IN  IF ~temp.ok
        THEN Result([conn EXCEPT !.db = temp.db], "IntegrityError", NoTask, <<>>)
        ELSE IF ~final.ok
        THEN Result([conn EXCEPT !.db = final.db], "IntegrityError", NoTask, <<>>)
        ELSE Result(commit(final.db), "none", NoTask, <<>>)

\* Mutant: the renumbering reads the rows ORDER BY id.
_normalise_positions_by_id(conn) ==
    LET rows == order_by_position_id({ [r EXCEPT !.position = 0] : r \in conn.db.rows })
        ids == [i \in DOMAIN rows |-> rows[i].id]
    IN  IF ids = <<>>
        THEN Result(conn, "none", NoTask, <<>>)
        ELSE renumber(conn, select_tasks(conn.db), ids)

_normalise_positions(conn) ==
    LET rows == select_tasks(conn.db)
        ids == [i \in DOMAIN rows |-> rows[i].id]
    IN  IF ids = <<>>
        THEN Result(conn, "none", NoTask, <<>>)
        ELSE renumber(conn, rows, ids)

\* Mutant: remove deletes and commits, and leaves the positions alone.
SQLite_remove_unnumbered(conn, task_id) ==
    Result(commit(delete_task(conn.db, task_id)), "none", NoTask, <<>>)

SQLite_remove(conn, task_id) ==
    _normalise_positions(commit(delete_task(conn.db, task_id)))

\* Mutant: completion_stats returns (total, done).
SQLite_completion_stats_swapped(conn) ==
    <<Cardinality(conn.db.rows), Cardinality({ r \in conn.db.rows : r.done })>>

\* SELECT COUNT(*) AS total, COALESCE(SUM(done), 0) AS done; return done, total
SQLite_completion_stats(conn) ==
    <<Cardinality({ r \in conn.db.rows : r.done }), Cardinality(conn.db.rows)>>

\* Mutant: reorder checks the length of ordered_ids alone.
SQLite_reorder_length_only(conn, ordered_ids) ==
    LET existing_rows == select_tasks(conn.db)
        done == renumber(conn, existing_rows, ordered_ids)
    IN  IF Len(existing_rows) # Len(ordered_ids)
        THEN Result(conn, "InvalidArgument", NoTask, <<>>)
        ELSE IF done.outcome # "none"
        THEN done
        ELSE Result(done.store, "ok", NoTask, SQLite_list_tasks(done.store))

SQLite_reorder(conn, ordered_ids) ==
    LET existing_rows == select_tasks(conn.db)
        existing_ids == [i \in DOMAIN existing_rows |-> existing_rows[i].id]
        done == renumber(conn, existing_rows, ordered_ids)
    IN  IF Len(existing_ids) # Len(ordered_ids)
        THEN Result(conn, "InvalidArgument", NoTask, <<>>)
        ELSE IF Range(existing_ids) # Range(ordered_ids)
        THEN Result(conn, "InvalidArgument", NoTask, <<>>)
        ELSE IF done.outcome # "none"
        THEN done
        ELSE Result(done.store, "ok", NoTask, SQLite_list_tasks(done.store))

\* CREATE TABLE IF NOT EXISTS tasks (...)
create_table_if_not_exists(table) == IF table.columns = {} THEN EmptyTable ELSE table

\* PRAGMA table_info(tasks): the column names
table_info(table) == table.columns

\* the value of a column added to rows that were there
NULL == "NULL"

\* ALTER TABLE tasks ADD COLUMN position INTEGER
alter_add_position(table) ==
    [table EXCEPT !.columns = @ \cup {"position"},
                  !.rows = { Task(r.id, r.title, r.done, NULL) : r \in @ }]

\* Mutant: UPDATE tasks SET position = -id
update_position_from_id_negated(table) ==
    [table EXCEPT !.rows = { replace_position(r, 0 - r.id) : r \in @ }]

\* UPDATE tasks SET position = id
update_position_from_id(table) ==
    [table EXCEPT !.rows = { replace_position(r, r.id) : r \in @ }]

\* CREATE UNIQUE INDEX IF NOT EXISTS idx_tasks_position ON tasks(position):
\* refused when two rows hold one position.
create_unique_index(table) ==
    Executed(table, \A r, o \in table.rows : r.position = o.position => r = o)

_ensure_position_column(conn) ==
    LET columns == table_info(conn.db)
        has_position == "position" \in columns
        migrated == IF has_position THEN conn
                    ELSE commit(update_position_from_id(commit(alter_add_position(conn.db)).db))
        indexed == create_unique_index(migrated.db)
    IN  IF indexed.ok
        THEN Result(commit(indexed.db), "none", NoTask, <<>>)
        ELSE Result(migrated, "IntegrityError", NoTask, <<>>)

\* Mutant: the positions are set from the ids at every initialisation.
SQLite_initialise_reset(conn) ==
    LET created == commit(create_table_if_not_exists(conn.db))
        reset == commit(update_position_from_id(created.db))
    IN  _normalise_positions(reset)

\* SQLiteTaskRepository(connection): _initialise
SQLite_initialise(conn) ==
    LET created == commit(create_table_if_not_exists(conn.db))
        ensured == _ensure_position_column(created)
    IN  IF ensured.outcome # "none"
        THEN ensured
        ELSE _normalise_positions(ensured.store)

----------------------------------------------------------------------------
\* The arguments the calls are given

ListTasks ==
    IF backend = "mem" THEN InMemory_list_tasks(Self) ELSE SQLite_list_tasks(Conn)

Ids(tasks) == [i \in DOMAIN tasks |-> tasks[i].id]

Orders(S) ==
    { s \in [1 .. Cardinality(S) -> S] : \A i, j \in DOMAIN s : s[i] = s[j] => i = j }

\* ordered_ids: every order of the ids in the store, and the current order
\* spoilt: an id dropped, an id twice or a foreign id, at the right length and
\* at a wrong one.
OrderedIds ==
    LET ids == Ids(ListTasks)
        n == Len(ids)
        foreign == TaskId \ Range(ids)
    IN  Orders(Range(ids))
        \cup { SubSeq(ids, 1, n - 1) : k \in 1 .. (IF n > 0 THEN 1 ELSE 0) }
        \cup { Append(ids, ids[k]) : k \in 1 .. (IF n > 0 THEN 1 ELSE 0) }
        \cup { [ids EXCEPT ![1] = ids[n]] : k \in 1 .. (IF n > 1 THEN 1 ELSE 0) }
        \cup { Append(ids, f) : f \in foreign }
        \cup { [ids EXCEPT ![n] = f] : f \in (IF n > 0 THEN foreign ELSE {}) }

----------------------------------------------------------------------------
\* The calls on the volatile repository, each a whole method

InMemoryReturns(op, title, task_id, ordered_ids, r) ==
    /\ _tasks' = r.store._tasks
    /\ _next_id' = r.store._next_id
    /\ last' = Returned(op, title, task_id, ordered_ids, r.outcome, r.task, r.tasks)
    /\ assigned' = IF op = "add" /\ r.outcome = "ok"
                   THEN assigned \cup {r.task.id} ELSE assigned
    /\ UNCHANGED <<backend, db, disk, pc, call, seen, faults>>

InMemoryAdd ==
    /\ backend = "mem"
    /\ \E title \in Titles :
        LET r == InMemory_add(Self, title) IN
        /\ r.outcome = "ok" => _next_id < MaxAdds /\ Len(_tasks) < MaxTasks
        /\ InMemoryReturns("add", title, -1, <<>>, r)

InMemoryToggle ==
    /\ backend = "mem"
    /\ \E task_id \in TaskId :
        InMemoryReturns("toggle", <<>>, task_id, <<>>, InMemory_toggle(Self, task_id))

InMemoryRemove ==
    /\ backend = "mem"
    /\ \E task_id \in TaskId :
        InMemoryReturns("remove", <<>>, task_id, <<>>, InMemory_remove(Self, task_id))

InMemoryReorder ==
    /\ backend = "mem"
    /\ \E ordered_ids \in OrderedIds :
        InMemoryReturns("reorder", <<>>, -1, ordered_ids,
                        InMemory_reorder(Self, ordered_ids))

InMemoryListTasks ==
    /\ backend = "mem"
    /\ InMemoryReturns("list_tasks", <<>>, -1, <<>>,
                       Result(Self, "ok", NoTask, InMemory_list_tasks(Self)))

InMemoryCompletionStats ==
    /\ backend = "mem"
    /\ last' = [Returned("completion_stats", <<>>, -1, <<>>, "ok", NoTask, <<>>)
                    EXCEPT !.stats = InMemory_completion_stats(Self)]
    /\ UNCHANGED <<backend, _tasks, _next_id, db, disk, pc, call, assigned, seen, faults>>

----------------------------------------------------------------------------
\* The calls on the persistent repository, each a whole method, run while no
\* other call is under way

SQLiteReturns(op, title, task_id, ordered_ids, r) ==
    /\ db' = r.store.db
    /\ disk' = r.store.disk
    /\ last' = Returned(op, title, task_id, ordered_ids, r.outcome, r.task, r.tasks)
    /\ assigned' = IF op = "add" /\ r.outcome = "ok"
                   THEN assigned \cup {r.task.id} ELSE assigned
    /\ pc' = "idle"
    /\ call' = NoCall
    /\ UNCHANGED <<backend, _tasks, _next_id, seen, faults>>

SQLiteAdd ==
    /\ backend = "sql" /\ pc = "idle"
    /\ \E title \in Titles :
        LET r == SQLite_add(Conn, title) IN
        /\ r.outcome = "ok" => db.seq < MaxAdds /\ Cardinality(db.rows) < MaxTasks
        /\ SQLiteReturns("add", title, -1, <<>>, r)

SQLiteToggle ==
    /\ backend = "sql" /\ pc = "idle"
    /\ \E task_id \in TaskId :
        SQLiteReturns("toggle", <<>>, task_id, <<>>, SQLite_toggle(Conn, task_id))

SQLiteRemove ==
    /\ backend = "sql" /\ pc = "idle"
    /\ \E task_id \in TaskId :
        SQLiteReturns("remove", <<>>, task_id, <<>>, SQLite_remove(Conn, task_id))

SQLiteReorder ==
    /\ backend = "sql" /\ pc = "idle"
    /\ \E ordered_ids \in OrderedIds :
        SQLiteReturns("reorder", <<>>, -1, ordered_ids,
                      SQLite_reorder(Conn, ordered_ids))

\* SQLiteTaskRepository(connection) on the database in use
SQLiteOpen ==
    /\ backend = "sql" /\ pc = "idle"
    /\ SQLiteReturns("open", <<>>, -1, <<>>, SQLite_initialise(Conn))

SQLiteListTasks ==
    /\ backend = "sql" /\ pc = "idle"
    /\ SQLiteReturns("list_tasks", <<>>, -1, <<>>,
                     Result(Conn, "ok", NoTask, SQLite_list_tasks(Conn)))

SQLiteCompletionStats ==
    /\ backend = "sql" /\ pc = "idle"
    /\ last' = [Returned("completion_stats", <<>>, -1, <<>>, "ok", NoTask, <<>>)
                    EXCEPT !.stats = SQLite_completion_stats(Conn)]
    /\ UNCHANGED <<backend, _tasks, _next_id, db, disk, pc, call, assigned, seen, faults>>

----------------------------------------------------------------------------
\* The persistent repository's multi-statement calls, one statement a step:
\* what a concurrent reader, or a failing statement, finds in between.

Raises(error) ==
    /\ pc' = "idle"
    /\ call' = NoCall
    /\ seen' = <<>>
    /\ last' = Returned(call.op, <<>>, call.task_id, call.ordered_ids, error, NoTask, <<>>)

\* remove: DELETE FROM tasks WHERE id = ?
RemoveDelete ==
    /\ backend = "sql" /\ pc = "idle"
    /\ \E task_id \in TaskId :
        /\ db' = delete_task(db, task_id)
        /\ call' = Call("remove", task_id, <<>>, <<>>, <<>>)
    /\ pc' = "delete_commit"
    /\ UNCHANGED <<backend, _tasks, _next_id, disk, last, assigned, seen, faults>>

\* remove: commit(), before _normalise_positions()
DeleteCommit ==
    /\ pc = "delete_commit"
    /\ disk' = db
    /\ pc' = "normalise"
    /\ UNCHANGED <<backend, _tasks, _next_id, db, call, last, assigned, seen, faults>>

\* SQLiteTaskRepository(connection) on the connection in use: _initialise
\* finds the table and the index in place, commits, and renumbers.
Reopen ==
    /\ backend = "sql" /\ pc = "idle"
    /\ disk' = db
    /\ call' = Call("open", -1, <<>>, <<>>, <<>>)
    /\ pc' = "normalise"
    /\ UNCHANGED <<backend, _tasks, _next_id, db, last, assigned, seen, faults>>

\* _normalise_positions: the SELECT, the early return, the two update lists
NormaliseSelect ==
    /\ pc = "normalise"
    /\ LET rows == select_tasks(db)
           ids == Ids(rows)
       IN  IF ids = <<>>
           THEN /\ pc' = "idle"
                /\ call' = NoCall
                /\ seen' = <<>>
                /\ last' = Returned(call.op, <<>>, call.task_id, <<>>, "none", NoTask, <<>>)
           ELSE /\ pc' = "temp"
                /\ call' = [call EXCEPT !.temp_updates = temp_updates(rows, ids),
                                        !.final_updates = final_updates(ids)]
                /\ UNCHANGED <<last, seen>>
    /\ UNCHANGED <<backend, _tasks, _next_id, db, disk, assigned, faults>>

\* reorder: the SELECT, the two checks, the two update lists
ReorderSelect ==
    /\ backend = "sql" /\ pc = "idle"
    /\ \E ordered_ids \in OrderedIds :
        LET existing_rows == select_tasks(db)
            existing_ids == Ids(existing_rows)
        IN  IF \/ Len(existing_ids) # Len(ordered_ids)
               \/ Range(existing_ids) # Range(ordered_ids)
            THEN /\ pc' = "idle"
                 /\ call' = NoCall
                 /\ last' = Returned("reorder", <<>>, -1, ordered_ids,
                                     "InvalidArgument", NoTask, <<>>)
            ELSE /\ pc' = IF ordered_ids = <<>> THEN "commit" ELSE "temp"
                 /\ call' = Call("reorder", -1, ordered_ids,
                                 temp_updates(existing_rows, ordered_ids),
                                 final_updates(ordered_ids))
                 /\ UNCHANGED last
    /\ UNCHANGED <<backend, _tasks, _next_id, db, disk, assigned, seen, faults>>

\* executemany(temp_updates): its next UPDATE
TempUpdate ==
    /\ pc = "temp"
    /\ LET one == update_position(db, Head(call.temp_updates)) IN
       IF one.ok
       THEN /\ db' = one.db
            /\ call' = [call EXCEPT !.temp_updates = Tail(call.temp_updates)]
            /\ pc' = IF Len(call.temp_updates) = 1 THEN "final" ELSE "temp"
            /\ UNCHANGED <<last, seen>>
       ELSE /\ Raises("IntegrityError")
            /\ UNCHANGED db
    /\ UNCHANGED <<backend, _tasks, _next_id, disk, assigned, faults>>

\* executemany(final_updates): its next UPDATE
FinalUpdate ==
    /\ pc = "final"
    /\ LET one == update_position(db, Head(call.final_updates)) IN
       IF one.ok
       THEN /\ db' = one.db
            /\ call' = [call EXCEPT !.final_updates = Tail(call.final_updates)]
            /\ pc' = IF Len(call.final_updates) = 1 THEN "commit" ELSE "final"
            /\ UNCHANGED <<last, seen>>
       ELSE /\ Raises("IntegrityError")
            /\ UNCHANGED db
    /\ UNCHANGED <<backend, _tasks, _next_id, disk, assigned, faults>>

\* the commit() that ends reorder and _normalise_positions, and the return
RenumberCommit ==
    /\ pc = "commit"
    /\ disk' = db
    /\ pc' = "idle"
    /\ call' = NoCall
    /\ seen' = <<>>
    /\ last' = IF call.op = "reorder"
               THEN Returned("reorder", <<>>, -1, call.ordered_ids, "ok", NoTask,
                             select_tasks(db))
               ELSE Returned(call.op, <<>>, call.task_id, <<>>, "none", NoTask, <<>>)
    /\ UNCHANGED <<backend, _tasks, _next_id, db, assigned, faults>>

\* list_tasks() of another caller of the same connection while a call is under
\* way (the application shares one connection between its sessions): it reads
\* uncommitted rows too.
ReadSameConnection ==
    /\ backend = "sql" /\ pc # "idle"
    /\ seen' = select_tasks(db)
    /\ UNCHANGED <<backend, _tasks, _next_id, db, disk, pc, call, last, assigned, faults>>

\* list_tasks() on another connection to the same database while a call is
\* under way: committed rows.
ReadOtherConnection ==
    /\ backend = "sql" /\ pc # "idle"
    /\ seen' = select_tasks(disk)
    /\ UNCHANGED <<backend, _tasks, _next_id, db, disk, pc, call, last, assigned, faults>>

\* The storage fails the UPDATE an executemany was about to run (disk I/O
\* error, disk full): the exception leaves the method, which has no rollback.
\* SQLite undoes the failed statement alone and keeps the transaction open, or
\* rolls the whole transaction back, as the error demands.
StatementFails ==
    /\ pc \in {"temp", "final"}
    /\ faults < MaxFaults
    /\ faults' = faults + 1
    /\ \E rolled_back \in BOOLEAN : db' = IF rolled_back THEN disk ELSE db
    /\ Raises("StorageError")
    /\ UNCHANGED <<backend, _tasks, _next_id, disk, assigned>>

----------------------------------------------------------------------------
\* A fresh repository of either kind: InMemoryTaskRepository(), or
\* SQLiteTaskRepository(connection) on an empty database.

Init ==
    /\ backend \in {"mem", "sql"}
    /\ _tasks = <<>>
    /\ _next_id = 0
    /\ db = EmptyTable
    /\ disk = EmptyTable
    /\ pc = "idle"
    /\ call = NoCall
    /\ last = NoReturn
    /\ assigned = {}
    /\ seen = <<>>
    /\ faults = 0

Next ==
    \/ InMemoryAdd
    \/ InMemoryToggle
    \/ InMemoryRemove
    \/ InMemoryReorder
    \/ InMemoryListTasks
    \/ InMemoryCompletionStats
    \/ SQLiteAdd
    \/ SQLiteToggle
    \/ SQLiteRemove
    \/ SQLiteReorder
    \/ SQLiteListTasks
    \/ SQLiteCompletionStats
    \/ SQLiteOpen

Spec == Init /\ [][Next]_vars

\* The persistent repository with a concurrent reader.
InitSQLite == Init /\ backend = "sql"

NextSteps ==
    \/ SQLiteAdd
    \/ SQLiteToggle
    \/ RemoveDelete
    \/ DeleteCommit
    \/ Reopen
    \/ NormaliseSelect
    \/ ReorderSelect
    \/ TempUpdate
    \/ FinalUpdate
    \/ RenumberCommit

\* The persistent repository, one caller, one statement a step.
SpecSteps == InitSQLite /\ [][NextSteps]_vars

NextConc ==
    \/ NextSteps
    \/ ReadSameConnection
    \/ ReadOtherConnection

SpecConc == InitSQLite /\ [][NextConc]_vars

\* The persistent repository on a storage that can fail a statement.
NextFault ==
    \/ NextSteps
    \/ StatementFails

SpecFault == InitSQLite /\ [][NextFault]_vars

----------------------------------------------------------------------------
\* A database written before tasks had a position column: any rows with
\* distinct positive ids, gaps included; or a database with no table at all.
\* The repository is opened on it and then used.

LegacyColumns == {"id", "title", "done"}

LegacyIds == 1 .. MaxTasks + 1

LegacyTables ==
    { [rows |-> { [id |-> id, title |-> <<"a">>, done |-> done[id]] : id \in ids },
       seq |-> Max(ids, 0),
       columns |-> LegacyColumns]
      : ids \in { S \in SUBSET LegacyIds : Cardinality(S) <= MaxTasks },
        done \in [LegacyIds -> BOOLEAN] }

InitLegacy ==
    /\ backend = "sql"
    /\ _tasks = <<>>
    /\ _next_id = 0
    /\ db \in LegacyTables \cup {NoTable}
    /\ disk = db
    /\ pc = "idle"
    /\ call = NoCall
    /\ last = NoReturn
    /\ assigned = { r.id : r \in db.rows }
    /\ seen = <<>>
    /\ faults = 0

\* the methods of the repository, once the constructor has run
Opened == "position" \in table_info(db)

OpenedAdd == Opened /\ SQLiteAdd

OpenedToggle == Opened /\ SQLiteToggle

OpenedRemove == Opened /\ SQLiteRemove

NextLegacy ==
    \/ SQLiteOpen
    \/ OpenedAdd
    \/ OpenedToggle
    \/ OpenedRemove

SpecLegacy == InitLegacy /\ [][NextLegacy]_vars

----------------------------------------------------------------------------
\* add on the persistent repository, one statement a step, while another
\* session of the application adds through the same connection.

\* an add under way: the normalised title, the position read, the row id
AddCall(title, next_position, lastrowid) ==
    [op |-> "add", task_id |-> -1, ordered_ids |-> <<>>,
     temp_updates |-> <<>>, final_updates |-> <<>>,
     title |-> title, next_position |-> next_position, lastrowid |-> lastrowid]

\* add: the title check and SELECT COALESCE(MAX(position), -1) + 1
AddSelect ==
    /\ backend = "sql" /\ pc = "idle"
    /\ \E title \in Titles :
        LET normalised == _normalise_title(title) IN
        IF normalised = <<>>
        THEN /\ pc' = "idle"
             /\ call' = NoCall
             /\ last' = Returned("add", title, -1, <<>>, "none", NoTask, <<>>)
        ELSE /\ db.seq < MaxAdds /\ Cardinality(db.rows) < MaxTasks
             /\ pc' = "insert"
             /\ call' = AddCall(normalised, select_next_position(db), 0)
             /\ UNCHANGED last
    /\ UNCHANGED <<backend, _tasks, _next_id, db, disk, assigned, seen, faults>>

\* add: INSERT INTO tasks (title, done, position) VALUES (?, 0, ?)
AddInsert ==
    /\ pc = "insert"
    /\ LET inserted == insert_task(db, call.title, call.next_position) IN
       IF inserted.ok
       THEN /\ db' = inserted.db
            /\ call' = [call EXCEPT !.lastrowid = inserted.lastrowid]
            /\ pc' = "add_commit"
            /\ UNCHANGED <<last, seen>>
       ELSE /\ Raises("IntegrityError")
            /\ UNCHANGED db
    /\ UNCHANGED <<backend, _tasks, _next_id, disk, assigned, faults>>

\* add: commit(), and the Task returned
AddCommit ==
    /\ pc = "add_commit"
    /\ disk' = db
    /\ pc' = "idle"
    /\ call' = NoCall
    /\ last' = Returned("add", call.title, -1, <<>>, "ok",
                        Task(call.lastrowid, call.title, FALSE, call.next_position), <<>>)
    /\ assigned' = assigned \cup {call.lastrowid}
    /\ UNCHANGED <<backend, _tasks, _next_id, db, seen, faults>>

\* the add of another session, whole, between the SELECT and the INSERT of
\* the add under way
OtherAdd ==
    /\ pc = "insert"
    /\ \E title \in Titles :
        LET r == SQLite_add(Conn, title) IN
        /\ r.outcome = "ok"
        /\ db.seq < MaxAdds /\ Cardinality(db.rows) < MaxTasks
        /\ db' = r.store.db
        /\ disk' = r.store.disk
        /\ assigned' = assigned \cup {r.task.id}
    /\ UNCHANGED <<backend, _tasks, _next_id, pc, call, last, seen, faults>>

NextAdd ==
    \/ AddSelect
    \/ AddInsert
    \/ AddCommit
    \/ OtherAdd
    \/ SQLiteToggle
    \/ SQLiteRemove
    \/ SQLiteReorder

SpecAdd == InitSQLite /\ [][NextAdd]_vars

----------------------------------------------------------------------------
\* A driver that fills a fresh repository with three tasks, then reorders
\* once, then removes once: three adds, one reorder, one remove, with any
\* titles of the three, any order of three ids and any id.

ship == <<"s", "h", "i", "p">>

test == <<"t", "e", "s", "t">>

deploy == <<"d", "e", "p", "l", "o", "y">>

ScenarioTitles == {ship, test, deploy}

ScenarioOrders == Orders(1 .. Cardinality(ScenarioTitles)) \cup Orders(Range(Ids(ListTasks)))

ScenarioAdd ==
    /\ last.op \in {"none", "add"}
    /\ Cardinality(assigned) < Cardinality(ScenarioTitles)
    /\ \E title \in ScenarioTitles :
        IF backend = "mem"
        THEN InMemoryReturns("add", title, -1, <<>>, InMemory_add(Self, title))
        ELSE SQLiteReturns("add", title, -1, <<>>, SQLite_add(Conn, title))

ScenarioReorder ==
    /\ last.op = "add"
    /\ Cardinality(assigned) = Cardinality(ScenarioTitles)
    /\ \E ordered_ids \in ScenarioOrders :
        IF backend = "mem"
        THEN InMemoryReturns("reorder", <<>>, -1, ordered_ids,
                             InMemory_reorder(Self, ordered_ids))
        ELSE SQLiteReturns("reorder", <<>>, -1, ordered_ids,
                           SQLite_reorder(Conn, ordered_ids))

ScenarioRemove ==
    /\ last.op = "reorder"
    /\ \E task_id \in TaskId :
        IF backend = "mem"
        THEN InMemoryReturns("remove", <<>>, task_id, <<>>,
                             InMemory_remove(Self, task_id))
        ELSE SQLiteReturns("remove", <<>>, task_id, <<>>, SQLite_remove(Conn, task_id))

NextScenario ==
    \/ ScenarioAdd
    \/ ScenarioReorder
    \/ ScenarioRemove

SpecScenario == Init /\ [][NextScenario]_vars

----------------------------------------------------------------------------
\* A fresh repository of either kind whose caller gives every task it adds
\* the next of three titles, so that tasks in the store differ in title.

NextTitle == <<ship, test, deploy>>[(Cardinality(assigned) % 3) + 1]

TitledAdd ==
    IF backend = "mem"
    THEN /\ _next_id < MaxAdds /\ Len(_tasks) < MaxTasks
         /\ InMemoryReturns("add", NextTitle, -1, <<>>, InMemory_add(Self, NextTitle))
    ELSE /\ pc = "idle"
         /\ db.seq < MaxAdds /\ Cardinality(db.rows) < MaxTasks
         /\ SQLiteReturns("add", NextTitle, -1, <<>>, SQLite_add(Conn, NextTitle))

NextTitled ==
    \/ TitledAdd
    \/ InMemoryToggle
    \/ InMemoryRemove
    \/ InMemoryReorder
    \/ InMemoryListTasks
    \/ InMemoryCompletionStats
    \/ SQLiteToggle
    \/ SQLiteRemove
    \/ SQLiteReorder
    \/ SQLiteListTasks
    \/ SQLiteCompletionStats
    \/ SQLiteOpen

SpecTitled == Init /\ [][NextTitled]_vars

----------------------------------------------------------------------------
\* A fresh repository of each kind, given the same calls with the same
\* arguments one after the other, as the tests' repo fixture gives each test
\* to both; last holds what the call returned from each.

InitBoth ==
    /\ backend = "both"
    /\ _tasks = <<>>
    /\ _next_id = 0
    /\ db = EmptyTable
    /\ disk = EmptyTable
    /\ pc = "idle"
    /\ call = NoCall
    /\ last = [mem |-> NoReturn, sql |-> NoReturn]
    /\ assigned = {}
    /\ seen = <<>>
    /\ faults = 0

BothReturn(op, title, task_id, ordered_ids, mem, sql) ==
    /\ _tasks' = mem.store._tasks
    /\ _next_id' = mem.store._next_id
    /\ db' = sql.store.db
    /\ disk' = sql.store.disk
    /\ last' = [mem |-> Returned(op, title, task_id, ordered_ids,
                                 mem.outcome, mem.task, mem.tasks),
                sql |-> Returned(op, title, task_id, ordered_ids,
                                 sql.outcome, sql.task, sql.tasks)]
    /\ assigned' = IF op = "add" /\ mem.outcome = "ok"
                   THEN assigned \cup {mem.task.id, sql.task.id} ELSE assigned
    /\ UNCHANGED <<backend, pc, call, seen, faults>>

BothAdd ==
    /\ backend = "both"
    /\ \E title \in Titles :
        /\ _normalise_title(title) # <<>> => _next_id < MaxAdds /\ Len(_tasks) < MaxTasks
        /\ BothReturn("add", title, -1, <<>>,
                      InMemory_add(Self, title), SQLite_add(Conn, title))

BothToggle ==
    /\ backend = "both"
    /\ \E task_id \in TaskId :
        BothReturn("toggle", <<>>, task_id, <<>>,
                   InMemory_toggle(Self, task_id), SQLite_toggle(Conn, task_id))

BothRemove ==
    /\ backend = "both"
    /\ \E task_id \in TaskId :
        BothReturn("remove", <<>>, task_id, <<>>,
                   InMemory_remove(Self, task_id), SQLite_remove(Conn, task_id))

BothReorder ==
    /\ backend = "both"
    /\ \E ordered_ids \in Orders(Range(Ids(_tasks))) \cup Orders(Range(Ids(select_tasks(db)))) :
        BothReturn("reorder", <<>>, -1, ordered_ids,
                   InMemory_reorder(Self, ordered_ids), SQLite_reorder(Conn, ordered_ids))

BothListTasks ==
    /\ backend = "both"
    /\ BothReturn("list_tasks", <<>>, -1, <<>>,
                  Result(Self, "ok", NoTask, InMemory_list_tasks(Self)),
                  Result(Conn, "ok", NoTask, SQLite_list_tasks(Conn)))

BothCompletionStats ==
    /\ backend = "both"
    /\ last' = [mem |-> [Returned("completion_stats", <<>>, -1, <<>>, "ok", NoTask, <<>>)
                            EXCEPT !.stats = InMemory_completion_stats(Self)],
                sql |-> [Returned("completion_stats", <<>>, -1, <<>>, "ok", NoTask, <<>>)
                            EXCEPT !.stats = SQLite_completion_stats(Conn)]]
    /\ UNCHANGED <<backend, _tasks, _next_id, db, disk, pc, call, assigned, seen, faults>>

NextBoth ==
    \/ BothAdd
    \/ BothToggle
    \/ BothRemove
    \/ BothReorder
    \/ BothListTasks
    \/ BothCompletionStats

SpecBoth == InitBoth /\ [][NextBoth]_vars

----------------------------------------------------------------------------
\* What the claims speak of

\* positions read in returned order are 0, 1, ..., N-1
Contiguous(tasks) == \A i \in DOMAIN tasks : tasks[i].position = i - 1

IdsIn(tasks) == Range(Ids(tasks))

TitlesOf(tasks) == [i \in DOMAIN tasks |-> tasks[i].title]

PositionsOf(tasks) == [i \in DOMAIN tasks |-> tasks[i].position]

\* ordered_ids holds every id of tasks exactly once, and nothing else
IsPermutation(ordered_ids, tasks) ==
    /\ \A id \in IdsIn(tasks) :
            Cardinality({ i \in DOMAIN ordered_ids : ordered_ids[i] = id }) = 1
    /\ \A i \in DOMAIN ordered_ids : ordered_ids[i] \in IdsIn(tasks)

\* a task without its position
Content(task) == [id |-> task.id, title |-> task.title, done |-> task.done]

Contents(tasks) == [i \in DOMAIN tasks |-> Content(tasks[i])]

Blank(title) == \A k \in DOMAIN title : title[k] \in Whitespace

\* t is s without its leading and trailing whitespace
IsTrimOf(t, s) ==
    \E i \in 1 .. Len(s) + 1, j \in 0 .. Len(s) :
        /\ t = SubSeq(s, i, j)
        /\ \A k \in 1 .. i - 1 : s[k] \in Whitespace
        /\ \A k \in j + 1 .. Len(s) : s[k] \in Whitespace
        /\ t # <<>> => t[1] \notin Whitespace /\ t[Len(t)] \notin Whitespace

\* the store of the repository in use
Store == IF backend = "mem" THEN Self ELSE Conn

\* list_tasks() and the store once the step is taken
ListTasksAfter == IF backend = "mem" THEN _tasks' ELSE select_tasks(db')

StoreAfter ==
    IF backend = "mem" THEN [_tasks |-> _tasks', _next_id |-> _next_id']
    ELSE [db |-> db', disk |-> disk']

Toggle(store, task_id) ==
    IF backend = "mem" THEN InMemory_toggle(store, task_id)
    ELSE SQLite_toggle(store, task_id)

Remove(store, task_id) ==
    IF backend = "mem" THEN InMemory_remove(store, task_id)
    ELSE SQLite_remove(store, task_id)

CompletionStats(store) ==
    IF backend = "mem" THEN InMemory_completion_stats(store)
    ELSE SQLite_completion_stats(store)

----------------------------------------------------------------------------
\* C1: in both backends, after any sequence of add, toggle, remove and
\* reorder calls from an empty store (failing and no-op calls included), the
\* positions of list_tasks() in returned order are exactly 0, 1, ..., N-1.
C1_PositionsContiguous == Contiguous(ListTasks)

\* a task other than the last was removed from a reordered persistent store
C1_Witness ==
    /\ backend = "sql"
    /\ last.op = "remove"
    /\ Len(ListTasks) = 2
    /\ ListTasks[1].id > ListTasks[2].id
    /\ last.task_id \in assigned \ IdsIn(ListTasks)

\* C2: in both backends, reorder(ordered_ids) with a permutation of the ids in
\* the store succeeds; afterwards list_tasks() has the ids of ordered_ids in
\* that order, the task at index i at position i, and equals the list returned.
C2_ReorderPermutation ==
    [][ (last'.op = "reorder" /\ IsPermutation(last'.ordered_ids, ListTasks))
        => /\ last'.outcome = "ok"
           /\ Ids(ListTasksAfter) = last'.ordered_ids
           /\ Contiguous(ListTasksAfter)
           /\ last'.tasks = ListTasksAfter ]_vars

\* three tasks were put in an order that is not the order of their ids
C2_Witness ==
    /\ backend = "sql"
    /\ last.op = "reorder" /\ last.outcome = "ok"
    /\ Len(last.ordered_ids) = 3
    /\ last.ordered_ids[1] > last.ordered_ids[2]
    /\ Ids(ListTasks) = last.ordered_ids

\* C3: in both backends, reorder(ordered_ids) fails with InvalidArgument
\* whenever ordered_ids does not hold every id of the store exactly once, and
\* then the store is unchanged and nothing was written.
C3_ReorderRejected ==
    [][ (last'.op = "reorder" /\ ~IsPermutation(last'.ordered_ids, ListTasks))
        => /\ last'.outcome = "InvalidArgument"
           /\ ListTasksAfter = ListTasks
           /\ UNCHANGED <<_tasks, _next_id, db, disk>> ]_vars

\* a list of the right length that names one id twice was refused
C3_Witness ==
    /\ last.op = "reorder" /\ last.outcome = "InvalidArgument"
    /\ Len(ListTasks) = 3
    /\ Len(last.ordered_ids) = 3
    /\ IdsIn(ListTasks) \ Range(last.ordered_ids) # {}
    /\ Range(last.ordered_ids) \subseteq IdsIn(ListTasks)

\* C4: in the persistent backend a list_tasks() that runs while remove,
\* reorder or the renumbering at initialisation is under way returns the
\* state before the call or the fully renumbered state after it: never
\* positions with a gap, a duplicate or a temporary value.
C4_ReaderSeesContiguous == Contiguous(seen)

\* C5: in the persistent backend, when a statement of the renumbering fails
\* part-way the store is left in its last valid state: a later list_tasks()
\* sees none of the position writes the failed call had issued.
C5_FailureLeavesCommittedState ==
    last.outcome = "StorageError" => select_tasks(db) = select_tasks(disk)

\* C6: in both backends add with a title that is not blank returns a Task
\* whose id is greater than every id the store has assigned before (removed
\* ones included), with the trimmed title and done = false.
C6_AddFreshId ==
    [][ (last'.op = "add" /\ ~Blank(last'.title))
        => /\ last'.outcome = "ok"
           /\ \A id \in assigned : last'.task.id > id
           /\ IsTrimOf(last'.task.title, last'.title)
           /\ last'.task.done = FALSE ]_vars

\* a padded title was added after the task with the largest id was removed
C6_Witness ==
    /\ last.op = "add" /\ last.outcome = "ok"
    /\ last.title = <<" ", "a", " ">>
    /\ last.task.id - 1 \in assigned \ IdsIn(ListTasks)
    /\ Len(ListTasks) = 2

\* C7: in both backends add with an empty or whitespace-only title returns
\* None, changes nothing and consumes no id; no stored title is ever blank.
C7_BlankAddIsNoOp ==
    [][ /\ (last'.op = "add" /\ Blank(last'.title))
            => /\ last'.outcome = "none"
               /\ ListTasksAfter = ListTasks
               /\ UNCHANGED <<_tasks, _next_id, db, disk, assigned>>
        /\ \A i \in DOMAIN ListTasksAfter : ~Blank(ListTasksAfter[i].title) ]_vars

\* a whitespace-only title was given to a store that holds tasks
C7_Witness ==
    /\ last.op = "add" /\ last.outcome = "none"
    /\ last.title = <<" ", " ">>
    /\ Len(ListTasks) = 2

\* C8: in both backends remove(id) of an existing task deletes exactly that
\* task: the others stay, in the same relative order, at positions 0..N-2.
C8_RemoveExisting ==
    [][ (last'.op = "remove" /\ last'.task_id \in IdsIn(ListTasks))
        => /\ last'.outcome = "none"
           /\ Contents(ListTasksAfter) =
                Contents(SelectSeq(ListTasks, LAMBDA t : t.id # last'.task_id))
           /\ Contiguous(ListTasksAfter) ]_vars

\* the first of three tasks, one of them done, was removed
C8_Witness ==
    /\ last.op = "remove"
    /\ Len(ListTasks) = 2
    /\ Cardinality(assigned) = 3
    /\ last.task_id \in assigned \ IdsIn(ListTasks)
    /\ \A i \in DOMAIN ListTasks : last.task_id < ListTasks[i].id
    /\ ListTasks[1].done /\ ~ListTasks[2].done

\* C9: in both backends remove(id) of an id that is not in the store raises
\* nothing and leaves list_tasks() as it was; so a second remove(id) leaves
\* the store a first one gave.
C9_RemoveAbsentIsNoOp ==
    [][ /\ (last'.op = "remove" /\ last'.task_id \notin IdsIn(ListTasks))
            => /\ last'.outcome = "none"
               /\ ListTasksAfter = ListTasks
        /\ last'.op = "remove"
            => /\ Remove(StoreAfter, last'.task_id).outcome = "none"
               /\ Remove(StoreAfter, last'.task_id).store = StoreAfter ]_vars

\* an id no add has returned was removed from a store that holds tasks
C9_Witness ==
    /\ last.op = "remove" /\ last.outcome = "none"
    /\ last.task_id \notin assigned
    /\ Len(ListTasks) = 2

\* C10: in both backends toggle(id) of an existing task returns it with done
\* flipped and changes nothing else, and a second toggle(id) right after it
\* restores the store and returns the task with its first done value.
C10_ToggleInvolution ==
    [][ \A i \in DOMAIN ListTasks :
            (last'.op = "toggle" /\ last'.task_id = ListTasks[i].id)
            => /\ last'.outcome = "ok"
               /\ last'.task = [ListTasks[i] EXCEPT !.done = ~ListTasks[i].done]
               /\ ListTasksAfter = [ListTasks EXCEPT ![i] = last'.task]
               /\ Toggle(StoreAfter, last'.task_id).outcome = "ok"
               /\ Toggle(StoreAfter, last'.task_id).task = ListTasks[i]
               /\ Toggle(StoreAfter, last'.task_id).store = Store ]_vars

\* a done task of a store of two was toggled back
C10_Witness ==
    /\ last.op = "toggle" /\ last.outcome = "ok"
    /\ ~last.task.done
    /\ Len(ListTasks) = 2
    /\ \E i \in DOMAIN ListTasks : ListTasks[i] = last.task /\ i = 1

\* C11: in both backends toggle(id) of an id that is not in the store (never
\* assigned, or assigned and removed since) raises NotFound and leaves the
\* store as it was: list_tasks() and completion_stats() give what they gave.
C11_ToggleAbsentRaises ==
    [][ (last'.op = "toggle" /\ last'.task_id \notin IdsIn(ListTasks))
        => /\ last'.outcome = "NotFound"
           /\ ListTasksAfter = ListTasks
           /\ CompletionStats(StoreAfter) = CompletionStats(Store)
           /\ UNCHANGED <<_tasks, _next_id, db, disk>> ]_vars

\* the id of a removed task was toggled in a store that holds a done task
C11_Witness ==
    /\ last.op = "toggle" /\ last.outcome = "NotFound"
    /\ last.task_id \in assigned \ IdsIn(ListTasks)
    /\ Len(ListTasks) = 2
    /\ ListTasks[1].done

\* the number of tasks of a list that are done
DoneCount(tasks) == Cardinality({ i \in DOMAIN tasks : tasks[i].done })

\* C12: in both backends, after any sequence of add, toggle, remove and
\* reorder calls, completion_stats() returns (d, n) with n the number of
\* tasks list_tasks() returns and d the number of them that are done, so
\* 0 <= d <= n; and completion_stats() changes nothing.
C12_CompletionStats ==
    [][ last'.op = "completion_stats"
        => /\ last'.outcome = "ok"
           /\ last'.stats = <<DoneCount(ListTasks), Len(ListTasks)>>
           /\ 0 <= last'.stats[1] /\ last'.stats[1] <= last'.stats[2]
           /\ ListTasksAfter = ListTasks
           /\ UNCHANGED <<_tasks, _next_id, db, disk, assigned>> ]_vars

\* the statistics of a persistent store of three tasks, one of them done
C12_Witness ==
    /\ backend = "sql"
    /\ last.op = "completion_stats"
    /\ last.stats = <<1, 3>>
    /\ Len(ListTasks) = 3

\* C13: in both backends an add that succeeds appends: the new task's
\* position is the number of tasks before the call, which is also one more
\* than the largest position before it (0 in an empty store); the task is the
\* last of list_tasks(), and every task that was there keeps its id, title,
\* done and position.
C13_AddAppends ==
    [][ (last'.op = "add" /\ last'.outcome = "ok")
        => /\ last'.task.position = Len(ListTasks)
           /\ last'.task.position =
                Max({ ListTasks[i].position : i \in DOMAIN ListTasks }, -1) + 1
           /\ ListTasksAfter = Append(ListTasks, last'.task) ]_vars

\* a task was added to a store of one task that once held two
C13_Witness ==
    /\ last.op = "add" /\ last.outcome = "ok"
    /\ Cardinality(assigned) = 3
    /\ Len(ListTasks) = 2
    /\ ListTasks[2] = last.task
    /\ ListTasks[1].done

\* "ship", "test" and "deploy" were added in this order to an empty store,
\* and nothing but a reorder has been called since
ShipTestDeployAdded ==
    /\ Cardinality(assigned) = 3
    /\ Len(ListTasks) = 3
    /\ \A i \in DOMAIN ListTasks :
            ListTasks[i].title = <<ship, test, deploy>>[
                1 + Cardinality({ k \in DOMAIN ListTasks : ListTasks[k].id < ListTasks[i].id })]

\* C14, as claimed: in every backend, from an empty store, adding "ship",
\* "test", "deploy" assigns ids 1, 2, 3 and list_tasks() has titles
\* [ship, test, deploy] at positions [0,1,2]; then reorder([3,1,2]) succeeds
\* and gives [deploy, ship, test] at [0,1,2]; then remove(1) gives
\* [ship, test] at [0,1].
C14_Scenario ==
    [][ /\ (last.op = "add" /\ ShipTestDeployAdded /\ Ids(ListTasks) = <<1, 2, 3>>
             /\ last'.op = "reorder" /\ last'.ordered_ids = <<3, 1, 2>>)
            => /\ last'.outcome = "ok"
               /\ TitlesOf(ListTasksAfter) = <<deploy, ship, test>>
               /\ PositionsOf(ListTasksAfter) = <<0, 1, 2>>
        /\ (last.op = "add" /\ ShipTestDeployAdded)
            => /\ Ids(ListTasks) = <<1, 2, 3>>
               /\ TitlesOf(ListTasks) = <<ship, test, deploy>>
               /\ PositionsOf(ListTasks) = <<0, 1, 2>>
        /\ (last.op = "reorder" /\ last.ordered_ids = <<3, 1, 2>> /\ ShipTestDeployAdded
             /\ last'.op = "remove" /\ last'.task_id = 1)
            => /\ TitlesOf(ListTasksAfter) = <<ship, test>>
               /\ PositionsOf(ListTasksAfter) = <<0, 1>> ]_vars

\* C14, as the code has it: the persistent backend assigns "ship", "test",
\* "deploy" the ids 1, 2, 3, reorder([3,1,2]) succeeds and gives
\* [deploy, ship, test] at [0,1,2], and remove(1) then removes "ship" and
\* gives [deploy, test] at [0,1].  The volatile backend assigns the ids
\* 0, 1, 2, refuses reorder([3,1,2]) with InvalidArgument and keeps
\* [ship, test, deploy], and remove(1) then removes "test" and gives
\* [ship, deploy] at [0,1].
C14_ScenarioAsBuilt ==
    [][ /\ (last.op = "add" /\ ShipTestDeployAdded)
            => /\ Ids(ListTasks) = IF backend = "sql" THEN <<1, 2, 3>> ELSE <<0, 1, 2>>
               /\ TitlesOf(ListTasks) = <<ship, test, deploy>>
               /\ PositionsOf(ListTasks) = <<0, 1, 2>>
        /\ (last.op = "add" /\ ShipTestDeployAdded
             /\ last'.op = "reorder" /\ last'.ordered_ids = <<3, 1, 2>>)
            => IF backend = "sql"
               THEN /\ last'.outcome = "ok"
                    /\ TitlesOf(ListTasksAfter) = <<deploy, ship, test>>
                    /\ PositionsOf(ListTasksAfter) = <<0, 1, 2>>
               ELSE /\ last'.outcome = "InvalidArgument"
                    /\ ListTasksAfter = ListTasks
        /\ (last.op = "reorder" /\ last.ordered_ids = <<3, 1, 2>> /\ ShipTestDeployAdded
             /\ last'.op = "remove" /\ last'.task_id = 1)
            => /\ TitlesOf(ListTasksAfter) =
                    IF backend = "sql" THEN <<deploy, test>> ELSE <<ship, deploy>>
               /\ PositionsOf(ListTasksAfter) = <<0, 1>> ]_vars

\* the persistent store after the three adds, the reorder and remove(1)
C14_Witness ==
    /\ backend = "sql"
    /\ last.op = "remove" /\ last.task_id = 1
    /\ Ids(ListTasks) = <<3, 2>>
    /\ TitlesOf(ListTasks) = <<deploy, test>>

\* C15: the two backends are equivalent: the same sequence of add, toggle,
\* remove, reorder, list_tasks and completion_stats calls with the same
\* arguments on a fresh repository of each kind gives at every step the same
\* kind of outcome and the same returned tasks (ids, titles, done flags and
\* positions) and statistics.
C15_BackendsAgree == last.mem = last.sql

\* C16: in the persistent backend no write of another call takes effect
\* between add's read of the largest position and its INSERT: at the INSERT
\* the position read is still one more than the largest position, so two
\* adds whose steps interleave never compute the same position and none is
\* refused by the uniqueness constraint on position.
C16_AddIndivisible ==
    /\ pc = "insert" => call.next_position = select_next_position(db)
    /\ last.op = "add" => last.outcome # "IntegrityError"

\* the positions the rows named in updates hold now
PositionsHeld(table, updates) ==
    { r.position : r \in { o \in table.rows : \E k \in DOMAIN updates : updates[k][2] = o.id } }

\* the UPDATE about to run gives its row a position no other row holds
NextUpdateIsFree(table, updates) ==
    ~position_taken(table, Head(updates)[1], Head(updates)[2])

\* C17: in the renumbering of reorder and _normalise_positions, on every
\* state the store reaches and every valid target order, no UPDATE of either
\* phase assigns a position another row holds: the temporary positions are
\* pairwise distinct and larger than every position held, the final
\* positions 0..N-1 lie below every temporary one, and the uniqueness
\* constraint is never violated, not even when remove has just left a gap.
C17_RenumberingNeverCollides ==
    /\ \A r, o \in db.rows : r.position = o.position => r = o
    /\ last.outcome # "IntegrityError"
    /\ pc = "temp"
        => /\ NextUpdateIsFree(db, call.temp_updates)
           /\ \A i, j \in DOMAIN call.temp_updates :
                call.temp_updates[i][1] = call.temp_updates[j][1] => i = j
           /\ \A i \in DOMAIN call.temp_updates :
                \A p \in PositionsHeld(db, call.temp_updates) :
                    call.temp_updates[i][1] > p
           /\ \A i \in DOMAIN call.temp_updates, r \in db.rows :
                call.temp_updates[i][1] # r.position
    /\ pc = "final"
        => /\ NextUpdateIsFree(db, call.final_updates)
           /\ \A i \in DOMAIN call.final_updates :
                \A p \in PositionsHeld(db, call.final_updates) :
                    call.final_updates[i][1] < p
           /\ \A i \in DOMAIN call.final_updates :
                call.final_updates[i][1] \in 0 .. Cardinality(db.rows) - 1

\* remove has deleted the first of three rows, and the renumbering has put
\* one of the two left at its final position
C17_Witness ==
    /\ pc = "final"
    /\ call.op = "remove"
    /\ Cardinality(db.rows) = 2
    /\ Len(call.final_updates) = 1
    /\ \E r \in db.rows : r.position = 0
    /\ \E r \in db.rows : r.position > 2

\* C18: initialisation is idempotent: SQLiteTaskRepository(connection) on
\* a store that was initialised before and changed by any sequence of add,
\* toggle, remove and reorder calls leaves list_tasks() exactly as it was,
\* and opening once more changes nothing further.
C18_InitialiseIdempotent ==
    [][ last'.op = "open"
        => /\ last'.outcome = "none"
           /\ ListTasksAfter = ListTasks
           /\ SQLite_initialise(StoreAfter).outcome = "none"
           /\ SQLite_initialise(StoreAfter).store = StoreAfter ]_vars

\* a store of three tasks in an order that is not the order of their ids,
\* one of them done, was opened again
C18_Witness ==
    /\ last.op = "open"
    /\ Len(ListTasks) = 3
    /\ ListTasks[1].id > ListTasks[2].id
    /\ ListTasks[2].done

\* C19: migration: SQLiteTaskRepository(connection) on a store whose tasks
\* table has no position column (any rows with distinct positive ids, gaps
\* allowed) ends without a constraint violation, and list_tasks() then
\* returns every original row with its id, title and done unchanged, in
\* ascending order of id, at positions 0..N-1.
C19_Migration ==
    [][ (last'.op = "open" /\ table_info(db) = LegacyColumns)
        => /\ last'.outcome = "none"
           /\ Len(ListTasksAfter) = Cardinality(db.rows)
           /\ Range(Contents(ListTasksAfter)) = db.rows
           /\ \A i, j \in DOMAIN ListTasksAfter :
                i < j => ListTasksAfter[i].id < ListTasksAfter[j].id
           /\ Contiguous(ListTasksAfter) ]_vars

\* a table of three rows with a gap in the ids, the first one done, has
\* been migrated
C19_Witness ==
    /\ last.op = "open"
    /\ Ids(ListTasks) = <<1, 3, 4>>
    /\ ListTasks[1].done /\ ~ListTasks[2].done
    /\ assigned = {1, 3, 4}

\* C20: no call changes the id or the title of a task in the store; remove
\* and reorder change no done flag of a task that stays; toggle(id) changes
\* the done flag of that task alone and no position; list_tasks and
\* completion_stats change nothing.
C20_Frame ==
    [][ \A before \in {ListTasks}, after \in {ListTasksAfter}, op \in {last'.op} :
            /\ \A i \in DOMAIN before, j \in DOMAIN after :
                    before[i].id = after[j].id
                    => /\ before[i].title = after[j].title
                       /\ op \in {"remove", "reorder"} => before[i].done = after[j].done
                       /\ op = "toggle"
                            => /\ before[i].position = after[j].position
                               /\ before[i].id # last'.task_id
                                    => before[i].done = after[j].done
            /\ \A i \in DOMAIN before :
                    (op = "remove" /\ last'.task_id = before[i].id)
                    \/ \E j \in DOMAIN after : after[j].id = before[i].id
            /\ op = "toggle" => Len(after) = Len(before)
            /\ op \in {"list_tasks", "completion_stats"}
                => /\ UNCHANGED <<_tasks, _next_id, db, disk, assigned>>
                   /\ after = before
            /\ op = "list_tasks" => last'.tasks = before ]_vars

\* three tasks of three titles, one of them done, were put in an order that
\* is not the order of their ids
C20_Witness ==
    /\ last.op = "reorder" /\ last.outcome = "ok"
    /\ Len(ListTasks) = 3
    /\ ListTasks[1].id > ListTasks[2].id
    /\ ListTasks[1].done /\ ~ListTasks[3].done
    /\ ListTasks[1].title # ListTasks[2].title
    /\ ListTasks[2].title # ListTasks[3].title
    /\ ListTasks[1].title # ListTasks[3].title

====
